---- MODULE Spec2Model ----
(***************************************************************************)
(* Connection providers of promptflow-core:                                *)
(*   promptflow/core/_connection_provider/_connection_provider.py          *)
(*   promptflow/core/_connection_provider/_workspace_connection_provider.py*)
(*                                                                         *)
(* Encoding of Python values.  A str is a sequence of tokens (chunks of    *)
(* characters), "" is <<>>; the tokenisation is canonical: the suffix      *)
(* "Connection" and the prefix "azureml.flow." are always tokens of their  *)
(* own, so endswith/startswith are tests on the last/first token.  A dict  *)
(* is the sequence of its <<key, value>> items in insertion order.  The    *)
(* result of a call is Ret(v) or Raise(e).                                 *)
(***************************************************************************)
EXTENDS Integers, Sequences, FiniteSets, TLC

VARIABLES
    obj,        \* the rest object handed to the schema normalizer
    typed,      \* what resolving its type name did (lines 203-204)
    built,      \* what build_connection_dict_from_rest_object did with it
    response,   \* the HTTP response open_url is given by the transport
    model,      \* open_url's model argument
    opened,     \* what open_url did with the response
    penv,       \* what the credential resolver reads of the process environment
    provider,   \* the WorkspaceConnectionProvider instance
    resolver_calls, \* how many times _get_credential ran for the instance
    last,       \* the latest operation on the instance and what it gave its caller
    environ,    \* os.environ as the facade reads it
    made,       \* what init_from_provider_config did with environ's provider config
    selected,   \* what _init_from_env did with environ
    _instance,  \* ConnectionProvider._instance
    selections, \* how many times _init_from_env ran for get_instance
    created,    \* how many provider instances get_instance constructed
    got,        \* what get_instance returned, if called since the environment last changed
    calls       \* each thread's call of get_instance: where it is, and its locals

buildVars == <<obj, typed, built>>
urlVars == <<response, model, opened>>
providerVars == <<penv, provider, resolver_calls, last>>
configVars == <<environ, made, selected>>
facadeVars == <<_instance, selections, created, got, calls>>
vars == <<buildVars, urlVars, providerVars, configVars, facadeVars>>

(***************************************************************************)
(* Python values and results                                               *)
(***************************************************************************)
None == <<"<None>">>

Truthy(v) == v # None /\ v # <<>>

NotCalled == [st |-> "none"]

Ret(v) == [st |-> "ret", val |-> v]

Raise(e) == [st |-> "raise", exc |-> e]

Returned(r) == r.st = "ret"

Raised(r, e) == r.st = "raise" /\ r.exc = e

\* str.lower() of one token: the tokens of the model that hold upper-case letters
LowerTok(t) ==
    CASE t = "AzureML.Flow." -> "azureml.flow."
      [] t = "Kind" -> "kind"
      [] t = "KIND" -> "kind"
      [] t = "ApiType" -> "apitype"
      [] t = "ApiVersion" -> "apiversion"
      [] t = "apiVersion" -> "apiversion"
      [] t = "ResourceId" -> "resourceid"
      [] t = "ApiKey" -> "apikey"
      [] t = "AAD" -> "aad"
      [] t = "SAS" -> "sas"
      [] OTHER -> t

Lower(s) == [i \in 1..Len(s) |-> LowerTok(s[i])]

StartsWith(s, p) == Len(s) >= Len(p) /\ SubSeq(s, 1, Len(p)) = p

EndsWith(s, p) == Len(s) >= Len(p) /\ SubSeq(s, Len(s) - Len(p) + 1, Len(s)) = p

(***************************************************************************)
(* dict operations                                                         *)
(***************************************************************************)
DictKeys(d) == [i \in 1..Len(d) |-> d[i][1]]

HasKey(d, k) == \E i \in 1..Len(d) : d[i][1] = k

\* d[k] = v: an existing key keeps its place, a new key goes last
DictSet(d, k, v) ==
    IF HasKey(d, k)
    THEN [i \in 1..Len(d) |-> IF d[i][1] = k THEN <<k, v>> ELSE d[i]]
    ELSE Append(d, <<k, v>>)

\* {**a, **b}
RECURSIVE DictMerge(_, _)
DictMerge(a, b) ==
    IF b = <<>> THEN a ELSE DictMerge(DictSet(a, b[1][1], b[1][2]), Tail(b))

\* the items of a dict, for comparing dicts as Python does (order ignored)
Items(d) == {d[i] : i \in 1..Len(d)}

(***************************************************************************)
(* Constants of _workspace_connection_provider.py                          *)
(***************************************************************************)
FLOW_META_PREFIX == <<"azureml.flow.">>

AzureOpenAI == <<"AzureOpenAI">>
CognitiveSearch == <<"CognitiveSearch">>
CognitiveService == <<"CognitiveService">>
CustomKeys == <<"CustomKeys">>
OpenAI == <<"OpenAI">>
Serp == <<"Serp">>
Serverless == <<"Serverless">>
BingLLMSearch == <<"BingLLMSearch">>

ApiKey == <<"ApiKey">>
AAD == <<"AAD">>

\* promptflow._constants.ConnectionAuthMode
KEY == <<"key">>
MEID_TOKEN == <<"meid_token">>

\* CustomConnection.__name__
CustomConnectionName == <<"Custom", "Connection">>

(***************************************************************************)
(* get_case_insensitive_key: the value of the first item whose key equals  *)
(* key when both are lower-cased, else default                             *)
(***************************************************************************)
get_case_insensitive_key(d, key, default) ==
    LET hits == {i \in 1..Len(d) : Lower(d[i][1]) = Lower(key)}
    IN IF hits = {} THEN default
       ELSE d[CHOOSE i \in hits : \A j \in hits : i <= j][2]

(***************************************************************************)
(* WorkspaceConnectionProvider.validate_and_fallback_connection_type       *)
(***************************************************************************)
\* mutant: CustomKeys added to the categories that fall back to their own name
validate_and_fallback_CustomKeysFallsBack(name, type_name, category, metadata) ==
    IF Truthy(type_name) THEN Ret(type_name)
    ELSE IF category \in {AzureOpenAI, CognitiveSearch, Serverless, CustomKeys}
    THEN Ret(category)
    ELSE LET kind == get_case_insensitive_key(metadata, <<"Kind">>, None)
         IN IF category = CognitiveService /\ kind = <<"Content Safety">>
            THEN Ret(<<"AzureContentSafety">>)
            ELSE IF category = CognitiveService /\ kind = <<"Form Recognizer">>
            THEN Ret(<<"FormRecognizer">>)
            ELSE Raise("UnknownConnectionType")

validate_and_fallback_connection_type(name, type_name, category, metadata) ==
    IF Truthy(type_name) THEN Ret(type_name)
    ELSE IF category \in {AzureOpenAI, CognitiveSearch, Serverless} THEN Ret(category)
    ELSE LET kind == get_case_insensitive_key(metadata, <<"Kind">>, None)
         IN IF category = CognitiveService /\ kind = <<"Content Safety">>
            THEN Ret(<<"AzureContentSafety">>)
            ELSE IF category = CognitiveService /\ kind = <<"Form Recognizer">>
            THEN Ret(<<"FormRecognizer">>)
            ELSE Raise("UnknownConnectionType")

(***************************************************************************)
(* get_auth_config, the closure of build_connection_dict_from_rest_object  *)
(***************************************************************************)
get_auth_config(props) ==
    IF props.auth_type = None THEN Raise("UnsupportedConnectionAuthType")
    ELSE IF Lower(props.auth_type) = Lower(ApiKey)
    THEN Ret(<< << <<"api_key">>, props.credentials.key>>, << <<"auth_mode">>, KEY>> >>)
    ELSE IF Lower(props.auth_type) = Lower(AAD)
    THEN Ret(<< << <<"api_key">>, None>>, << <<"auth_mode">>, MEID_TOKEN>> >>)
    ELSE Raise("UnsupportedConnectionAuthType")

\* the type name with the suffix of line 208
WithConnectionSuffix(type_name) ==
    IF ~EndsWith(type_name, <<"Connection">>) THEN type_name \o <<"Connection">>
    ELSE type_name

\* mutant: the metadata merged without dropping the reserved prefix
CustomKeysValue_KeepsReserved(properties) ==
    DictMerge(properties.credentials.keys, properties.metadata)

\* lines 251-254: credentials.keys merged with the metadata outside the reserved prefix
CustomKeysValue(properties) ==
    DictMerge(properties.credentials.keys,
              SelectSeq(properties.metadata, LAMBDA it : ~StartsWith(it[1], FLOW_META_PREFIX)))

\* mutant: only "" is filtered out, None stays
StripEmpty_KeepsNone(value) == SelectSeq(value, LAMBDA it : it[2] # <<>>)

\* line 267: {k: v for k, v in value.items() if v}
StripEmpty(value) == SelectSeq(value, LAMBDA it : Truthy(it[2]))

\* the value dict of lines 221-265, before the empty values are filtered out
CategoryValue(properties) ==
    LET auth == get_auth_config(properties)
        md == properties.metadata
    IN IF properties.category = AzureOpenAI THEN
           IF ~Returned(auth) THEN auth
           ELSE LET value == DictMerge(auth.val,
                        << << <<"api_base">>, properties.target>>,
                           << <<"api_type">>, get_case_insensitive_key(md, <<"ApiType">>, None)>>,
                           << <<"api_version">>, get_case_insensitive_key(md, <<"ApiVersion">>, None)>> >>)
                    resource_id == get_case_insensitive_key(md, <<"ResourceId">>, None)
                IN Ret(IF Truthy(resource_id)
                       THEN DictSet(value, <<"resource_id">>, resource_id) ELSE value)
       ELSE IF properties.category = CognitiveSearch THEN
           IF ~Returned(auth) THEN auth
           ELSE Ret(DictMerge(auth.val,
                        << << <<"api_base">>, properties.target>>,
                           << <<"api_version">>, get_case_insensitive_key(md, <<"ApiVersion">>, None)>> >>))
       ELSE IF properties.category = Serverless THEN
           IF ~Returned(auth) THEN auth
           ELSE Ret(DictMerge(auth.val, << << <<"api_base">>, properties.target>> >>))
       ELSE IF properties.category = CognitiveService THEN
           IF ~Returned(auth) THEN auth
           ELSE Ret(DictMerge(auth.val,
                        << << <<"endpoint">>, properties.target>>,
                           << <<"api_version">>, get_case_insensitive_key(md, <<"ApiVersion">>, None)>> >>))
       ELSE IF properties.category = CustomKeys THEN
           Ret(CustomKeysValue(properties))
       ELSE Raise("UnknownConnectionType")

\* lines 203-204: the declared type name, validated or replaced by the fallback
ResolveTypeName(name, properties) ==
    validate_and_fallback_connection_type(
        name,
        get_case_insensitive_key(properties.metadata,
                                 FLOW_META_PREFIX \o <<"connection_type">>, None),
        properties.category, properties.metadata)

(***************************************************************************)
(* WorkspaceConnectionProvider.build_connection_dict_from_rest_object      *)
(***************************************************************************)
build_connection_dict_from_rest_object(name, o) ==
    LET properties == o.properties
        resolved == ResolveTypeName(name, properties)
    IN IF ~Returned(resolved) THEN resolved
       ELSE LET module == get_case_insensitive_key(properties.metadata,
                              FLOW_META_PREFIX \o <<"module">>, <<"promptflow.connections">>)
                type_name == WithConnectionSuffix(resolved.val)
                value == CategoryValue(properties)
            IN IF ~Returned(value) THEN value
               ELSE LET filtered == StripEmpty(value.val)
                    IN IF properties.category = CustomKeys /\ type_name = CustomConnectionName
                       THEN Ret([type |-> type_name, module |-> module,
                                 secret_keys |-> DictKeys(properties.credentials.keys),
                                 value |-> filtered])
                       ELSE Ret([type |-> type_name, module |-> module, value |-> filtered])

(***************************************************************************)
(* WorkspaceConnectionProvider.open_url.  The transport hands back a       *)
(* response: a status code and a body that parses as JSON or does not.     *)
(***************************************************************************)
\* response.json(): the parsed body, or the parser's error
json(resp) == IF resp.body.json THEN Ret(resp.body.data) ELSE Raise("JSONDecodeError")

\* model.deserialize(data): the typed resource holding the fields of the document
deserialize(m, data) == [cls |-> m, name |-> data.name, properties |-> data.properties]

\* mutant: the 4xx test comes first, so 403 is reported as any other 4xx
open_url_403AsUserError(resp, m) ==
    IF 400 <= resp.status_code /\ resp.status_code < 500 THEN Raise("OpenURLFailedUserError")
    ELSE IF resp.status_code = 403 THEN Raise("AccessDeniedError")
    ELSE IF resp.status_code # 200 THEN Raise("OpenURLFailed")
    ELSE LET data == json(resp)
         IN IF ~Returned(data) THEN data
            ELSE IF Truthy(m) THEN Ret(deserialize(m, data.val))
            ELSE data

open_url(resp, m) ==
    IF resp.status_code = 403 THEN Raise("AccessDeniedError")
    ELSE IF 400 <= resp.status_code /\ resp.status_code < 500 THEN Raise("OpenURLFailedUserError")
    ELSE IF resp.status_code # 200 THEN Raise("OpenURLFailed")
    ELSE LET data == json(resp)
         IN IF ~Returned(data) THEN data
            ELSE IF Truthy(m) THEN Ret(deserialize(m, data.val))
            ELSE data

WorkspaceConnectionPropertiesV2BasicResource == <<"WorkspaceConnectionPropertiesV2BasicResource">>

(***************************************************************************)
(* Credentials.  A credential is the chain it tries: the ambient identity, *)
(* then interactive browser login and device-code login when included.     *)
(***************************************************************************)
NoCredential == [cls |-> "NoneType", interactive_browser |-> FALSE, device_code |-> FALSE]

\* a credential the caller passes to the constructor
CallerCredential == [cls |-> "TokenCredential", interactive_browser |-> FALSE, device_code |-> FALSE]

DefaultAzureCredential(exclude_interactive_browser_credential) ==
    [cls |-> "DefaultAzureCredential",
     interactive_browser |-> ~exclude_interactive_browser_credential,
     device_code |-> FALSE]

\* credential.credentials = (*credential.credentials, DeviceCodeCredential())
WithDeviceCode(credential) == [credential EXCEPT !.device_code = TRUE]

\* mutant: a failed validation under the CLI is swallowed and the later branches decide
_get_credential_SwallowsFailure(env) ==
    IF ~env.azureml_serving_installed THEN Raise("MissingRequiredPackage")
    ELSE IF env.interactive_credential_disabled THEN Ret(DefaultAzureCredential(TRUE))
    ELSE IF env.is_github_codespaces THEN Ret(WithDeviceCode(DefaultAzureCredential(TRUE)))
    ELSE Ret(DefaultAzureCredential(FALSE))

(***************************************************************************)
(* WorkspaceConnectionProvider._get_credential.  env.ambient_ok: the       *)
(* ambient credential is obtained and get_arm_token gives a token for it.  *)
(***************************************************************************)
_get_credential(env) ==
    IF ~env.azureml_serving_installed THEN Raise("MissingRequiredPackage")
    ELSE IF env.is_from_cli /\ ~env.ambient_ok THEN Raise("AccountNotSetUp")
    ELSE IF env.interactive_credential_disabled THEN Ret(DefaultAzureCredential(TRUE))
    ELSE IF env.is_github_codespaces THEN Ret(WithDeviceCode(DefaultAzureCredential(TRUE)))
    ELSE Ret(DefaultAzureCredential(FALSE))

\* mutant: the property resolves on every read
credential_AlwaysResolves(self, env) ==
    LET r == _get_credential(env)
    IN [result |-> r, resolved |-> r,
        self |-> IF Returned(r) THEN [self EXCEPT !._credential = r.val] ELSE self]

(***************************************************************************)
(* WorkspaceConnectionProvider.credential (the property): the value read,  *)
(* what the resolver gave when it ran, and the instance afterwards         *)
(***************************************************************************)
credential(self, env) ==
    IF self._credential = NoCredential
    THEN LET r == _get_credential(env)
         IN [result |-> r, resolved |-> r,
             self |-> IF Returned(r) THEN [self EXCEPT !._credential = r.val] ELSE self]
    ELSE [result |-> Ret(self._credential), resolved |-> NotCalled, self |-> self]

(***************************************************************************)
(* WorkspaceConnectionProvider.__init__                                    *)
(***************************************************************************)
WorkspaceConnectionProvider(subscription_id, resource_group_name, workspace_name, cred) ==
    [cls |-> "WorkspaceConnectionProvider", _credential |-> cred,
     subscription_id |-> subscription_id, resource_group_name |-> resource_group_name,
     workspace_name |-> workspace_name]

(***************************************************************************)
(* WorkspaceConnectionProvider._build_connection_dict.  token: what        *)
(* get_arm_token(credential) does, a token or the exception it raises.     *)
(***************************************************************************)
_build_connection_dict(name, env, token, resp) ==
    IF ~env.azureml_serving_installed THEN Raise("MissingRequiredPackage")
    ELSE LET rest_obj == IF token # "token" THEN Raise(token)
                         ELSE open_url(resp, WorkspaceConnectionPropertiesV2BasicResource)
         IN IF Raised(rest_obj, "AccessDeniedError") THEN Raise("OpenURLUserAuthenticationError")
            ELSE IF Raised(rest_obj, "ClientAuthenticationError") THEN Raise("UserErrorException")
            ELSE IF ~Returned(rest_obj) THEN Raise("SystemErrorException")
            ELSE LET d == build_connection_dict_from_rest_object(name, rest_obj.val)
                 IN IF Returned(d) THEN d ELSE Raise("BuildConnectionError")

\* _Connection._from_execution_connection_dict(name=name, data=connection_dict)
_from_execution_connection_dict(name, data) == [name |-> name, data |-> data]

(***************************************************************************)
(* WorkspaceConnectionProvider.get: what the caller gets, what the         *)
(* resolver gave if it ran, and the instance afterwards                    *)
(***************************************************************************)
get(self, name, env, token, resp) ==
    LET c == credential(self, env)
    IN IF ~Returned(c.result)
       THEN [result |-> c.result, resolved |-> c.resolved, self |-> c.self, used |-> c.result]
       ELSE LET d == _build_connection_dict(name, env, token, resp)
            IN [result |-> IF Returned(d)
                           THEN Ret(_from_execution_connection_dict(name, d.val)) ELSE d,
                resolved |-> c.resolved, self |-> c.self, used |-> c.result]

(***************************************************************************)
(* The error taxonomy: which errors are the user's and which the system's  *)
(***************************************************************************)
UserErrors ==
    {"UserErrorException", "OpenURLUserAuthenticationError", "AccessDeniedError",
     "OpenURLFailedUserError", "AccountNotSetUp", "UnsupportedConnectionProviderConfig",
     "MissingRequiredPackage"}

SystemErrors ==
    {"SystemErrorException", "OpenURLFailed", "UnknownConnectionType",
     "UnsupportedConnectionAuthType", "BuildConnectionError"}

(***************************************************************************)
(* Provider configs.  The tokens of a config string: the literal local,    *)
(* the scheme azureml, the three fixed segments of the workspace URI, and  *)
(* other text.                                                             *)
(***************************************************************************)
ConnectionProviderConfig_LOCAL == <<"local">>

ConnectionProviderConfig_AZUREML == <<"azureml">>

SUBSCRIPTIONS == "://subscriptions/"

RESOURCE_GROUPS == "/resourceGroups/"

WORKSPACES == "/providers/Microsoft.MachineLearningServices/workspaces/"

\* re.match of the workspace URI: the scheme and the subscriptions segment, then
\* the resourceGroups segment, then the workspaces segment, any text in between
MatchesWorkspace(s) ==
    /\ Len(s) >= 4
    /\ s[1] = "azureml"
    /\ s[2] = SUBSCRIPTIONS
    /\ \E i, j \in 3..Len(s) : i < j /\ s[i] = RESOURCE_GROUPS /\ s[j] = WORKSPACES

\* the three greedy groups of the match
extract_workspace(provider_config) ==
    IF ~MatchesWorkspace(provider_config)
    THEN Raise("UnsupportedConnectionProviderConfig")
    ELSE LET n == Len(provider_config)
             j == CHOOSE j \in 3..n :
                    /\ provider_config[j] = WORKSPACES
                    /\ \E i \in 3..(j - 1) : provider_config[i] = RESOURCE_GROUPS
                    /\ \A k \in (j + 1)..n :
                          ~(/\ provider_config[k] = WORKSPACES
                            /\ \E i \in 3..(k - 1) : provider_config[i] = RESOURCE_GROUPS)
             i == CHOOSE i \in 3..(j - 1) :
                    /\ provider_config[i] = RESOURCE_GROUPS
                    /\ \A k \in (i + 1)..(j - 1) : provider_config[k] # RESOURCE_GROUPS
         IN Ret(<<SubSeq(provider_config, 3, i - 1), SubSeq(provider_config, i + 1, j - 1),
                  SubSeq(provider_config, j + 1, n)>>)

LocalConnectionProvider == [cls |-> "LocalConnectionProvider"]

HttpConnectionProvider(endpoint) == [cls |-> "HttpConnectionProvider", endpoint |-> endpoint]

\* mutant: a config that is neither local nor azureml falls back to the local provider
init_from_provider_config_FallsBackToLocal(provider_config, cred, sdk_installed) ==
    IF ~StartsWith(provider_config, ConnectionProviderConfig_AZUREML)
    THEN IF ~sdk_installed THEN Raise("MissingRequiredPackage") ELSE Ret(LocalConnectionProvider)
    ELSE LET w == extract_workspace(provider_config)
         IN IF ~Returned(w) THEN w
            ELSE Ret(WorkspaceConnectionProvider(w.val[1], w.val[2], w.val[3], cred))

(***************************************************************************)
(* ConnectionProvider.init_from_provider_config.  sdk_installed: the       *)
(* import of LocalConnectionProvider succeeds.                             *)
(***************************************************************************)
init_from_provider_config(provider_config, cred, sdk_installed) ==
    IF ~Truthy(provider_config) \/ provider_config = ConnectionProviderConfig_LOCAL
    THEN IF ~sdk_installed THEN Raise("MissingRequiredPackage") ELSE Ret(LocalConnectionProvider)
    ELSE IF StartsWith(provider_config, ConnectionProviderConfig_AZUREML)
    THEN LET w == extract_workspace(provider_config)
         IN IF ~Returned(w) THEN w
            ELSE Ret(WorkspaceConnectionProvider(w.val[1], w.val[2], w.val[3], cred))
    ELSE Raise("UnsupportedConnectionProviderConfig")

\* os.getenv(key, default)
getenv(value, default) == IF value = None THEN default ELSE value

(***************************************************************************)
(* ConnectionProvider._init_from_env                                       *)
(***************************************************************************)
_init_from_env(env) ==
    LET endpoint == getenv(env.endpoint, None)
    IN IF Truthy(endpoint) THEN Ret(HttpConnectionProvider(endpoint))
       ELSE init_from_provider_config(getenv(env.provider_config, <<>>), NoCredential,
                                      env.sdk_installed)

\* cls._instance = None; an instance is the object and the address it lives at
NoInstance == [addr |-> 0, obj |-> [cls |-> "NoneType"]]

\* mutant: no test of the memoized instance, every call selects again
get_instance_AlwaysSelects(inst, env, addr) ==
    LET r == _init_from_env(env)
    IN IF Returned(r)
       THEN [result |-> Ret([addr |-> addr, obj |-> r.val]), ran |-> TRUE,
             inst |-> [addr |-> addr, obj |-> r.val]]
       ELSE [result |-> r, ran |-> TRUE, inst |-> inst]

(***************************************************************************)
(* ConnectionProvider.get_instance: what the caller gets, whether the      *)
(* selection ran, and cls._instance afterwards.  addr: where an instance   *)
(* constructed by this call is allocated.                                  *)
(***************************************************************************)
get_instance(inst, env, addr) ==
    IF inst = NoInstance
    THEN LET r == _init_from_env(env)
         IN IF Returned(r)
            THEN [result |-> Ret([addr |-> addr, obj |-> r.val]), ran |-> TRUE,
                  inst |-> [addr |-> addr, obj |-> r.val]]
            ELSE [result |-> r, ran |-> TRUE, inst |-> inst]
    ELSE [result |-> Ret(inst), ran |-> FALSE, inst |-> inst]

(***************************************************************************)
(* Rest objects: the inputs of build_connection_dict_from_rest_object      *)
(***************************************************************************)
MaxMeta == 2

MaxCustomMeta == 3

MaxKeys == 2

DistinctKeys(d) == \A i, j \in 1..Len(d) : i # j => d[i][1] # d[j][1]

\* the dicts of at most n items drawn from E
DictsUpTo(E, n) == UNION {{d \in [1..k -> E] : DistinctKeys(d)} : k \in 0..n}

Categories ==
    {AzureOpenAI, CognitiveSearch, CognitiveService, CustomKeys, OpenAI, Serp,
     Serverless, BingLLMSearch, <<"ApiKey">>}

ConnectionTypeKey == FLOW_META_PREFIX \o <<"connection_type">>

RestObject(c, a, t, k, ks, md) ==
    [name |-> <<"conn">>,
     properties |-> [category |-> c, auth_type |-> a, target |-> t,
                     credentials |-> [key |-> k, keys |-> ks], metadata |-> md]]

\* metadata that decides the type name
TypeEntries ==
    {<<ConnectionTypeKey, v>> :
        v \in {<<>>, <<"Custom">>, <<"Custom", "Connection">>, <<"AzureOpenAI">>, <<"Connection">>}}
    \cup {<< <<"AzureML.Flow.", "connection_type">>, <<"OpenAI">> >>}
    \cup {<< <<"Kind">>, v>> :
        v \in {<<"Content Safety">>, <<"Form Recognizer">>, <<"content safety">>, <<>>}}
    \cup {<< <<"kind">>, v>> : v \in {<<"Content Safety">>, <<"Form Recognizer">>}}

TypeNameObject(c, md) ==
    RestObject(c, ApiKey, <<"t">>, <<"k">>, << <<(<<"a">>), <<"x">>>> >>, md)

\* metadata, targets and credentials that fill the value dict of the keyed categories
ValueEntries ==
    {<<ConnectionTypeKey, <<"Custom">>>>}
    \cup {<<k, v>> : k \in {<<"ApiType">>, <<"ApiVersion">>, <<"ResourceId">>},
                     v \in {<<>>, <<"v">>}}

AuthTypes == {ApiKey, <<"apikey">>, AAD, <<"SAS">>, None}

ValueObject(c, a, t, k, md) == RestObject(c, a, t, k, << <<(<<"b">>), <<>>>> >>, md)

\* CustomKeys resources: secrets in credentials.keys, the rest in the metadata
KeyEntries ==
    {<< <<"a">>, <<"x">> >>, << <<"a">>, <<>> >>, << <<"b">>, <<>> >>, << <<"b">>, <<"y">> >>}

CustomEntries ==
    {<<ConnectionTypeKey, <<"Custom">>>>, <<ConnectionTypeKey, <<>>>>,
     <<FLOW_META_PREFIX \o <<"foo">>, <<"ignored">>>>,
     << <<"plain">>, <<"keep">> >>,
     << <<"a">>, <<>> >>, << <<"a">>, <<"m">> >>,
     << <<"AzureML.Flow.", "bar">>, <<"v">> >>}

CustomKeysObject(ks, md) == RestObject(CustomKeys, AAD, <<"t">>, None, ks, md)

(***************************************************************************)
(* Inputs of the other operations                                          *)
(***************************************************************************)
MinStatus == 100

MaxStatus == 599

MaxConfigLen == 4

MaxCalls == 2

MaxSelections == 2
MaxThreads == 2

\* JSON documents the workspace API answers with
SampleDocuments ==
    {ValueObject(AzureOpenAI, ApiKey, <<"t">>, <<"k">>, <<>>),
     TypeNameObject(CustomKeys, <<>>)}

Bodies ==
    {[json |-> FALSE, data |-> <<>>]} \cup {[json |-> TRUE, data |-> d] : d \in SampleDocuments}

SampleStatuses == {200, 201, 204, 302, 400, 401, 403, 404, 429, 499, 500, 503}

TokenOutcomes == {"token", "ClientAuthenticationError", "Exception"}

ResolverEnvs ==
    [is_from_cli : BOOLEAN, interactive_credential_disabled : BOOLEAN,
     is_github_codespaces : BOOLEAN, ambient_ok : BOOLEAN,
     azureml_serving_installed : BOOLEAN]

ConfigTokens ==
    {"local", "Local", "azureml", SUBSCRIPTIONS, RESOURCE_GROUPS, WORKSPACES, "x"}

ConfigStrings == UNION {[1..k -> ConfigTokens] : k \in 0..MaxConfigLen}

Endpoints == {None, <<>>, <<"http://localhost:8080">>}

SampleConfigs ==
    {None, <<>>, <<"local">>, <<"azureml">>, <<"x">>,
     <<"azureml", SUBSCRIPTIONS, "x", RESOURCE_GROUPS, "x", WORKSPACES, "x">>}

NoProvider == [cls |-> "NoneType"]

(***************************************************************************)
(* The state of the parts a specification leaves alone                     *)
(***************************************************************************)
BuildIdle == obj = <<>> /\ typed = NotCalled /\ built = NotCalled

UrlIdle == response = <<>> /\ model = None /\ opened = NotCalled

ProviderIdle ==
    penv = <<>> /\ provider = NoProvider /\ resolver_calls = 0 /\ last = [op |-> "none"]

ConfigIdle == environ = <<>> /\ made = NotCalled /\ selected = NotCalled

\* the threads of the process, and a thread that has not called get_instance
Threads == 1..MaxThreads

NoCall == [pc |-> "idle", value |-> NoInstance, result |-> NotCalled]

FacadeIdle ==
    /\ _instance = NoInstance /\ selections = 0 /\ created = 0 /\ got = NotCalled
    /\ calls = [t \in Threads |-> NoCall]

(***************************************************************************)
(* The normalizer applied to one rest object                               *)
(***************************************************************************)
InitBuild ==
    /\ \/ \E c \in Categories, md \in DictsUpTo(TypeEntries, MaxMeta) :
            obj = TypeNameObject(c, md)
       \/ \E c \in Categories, a \in AuthTypes, t \in {<<>>, <<"t">>},
             k \in {None, <<>>, <<"k">>}, md \in DictsUpTo(ValueEntries, MaxMeta) :
            obj = ValueObject(c, a, t, k, md)
       \/ \E ks \in DictsUpTo(KeyEntries, MaxKeys), md \in DictsUpTo(CustomEntries, MaxCustomMeta) :
            obj = CustomKeysObject(ks, md)
    /\ typed = NotCalled
    /\ built = NotCalled
    /\ UrlIdle /\ ProviderIdle /\ ConfigIdle /\ FacadeIdle

ValidateAndFallback ==
    /\ typed = NotCalled
    /\ typed' = ResolveTypeName(obj.name, obj.properties)
    /\ UNCHANGED <<obj, built, urlVars, providerVars, configVars, facadeVars>>

BuildConnectionDict ==
    /\ built = NotCalled
    /\ built' = build_connection_dict_from_rest_object(obj.name, obj)
    /\ UNCHANGED <<obj, typed, urlVars, providerVars, configVars, facadeVars>>

NextBuild == ValidateAndFallback \/ BuildConnectionDict

SpecBuild == InitBuild /\ [][NextBuild]_vars

(***************************************************************************)
(* open_url applied to one response                                        *)
(***************************************************************************)
InitOpenUrl ==
    /\ response \in [status_code : MinStatus..MaxStatus, body : Bodies]
    /\ model \in {None, WorkspaceConnectionPropertiesV2BasicResource}
    /\ opened = NotCalled
    /\ BuildIdle /\ ProviderIdle /\ ConfigIdle /\ FacadeIdle

OpenUrl ==
    /\ opened = NotCalled
    /\ opened' = open_url(response, model)
    /\ UNCHANGED <<response, model, buildVars, providerVars, configVars, facadeVars>>

NextOpenUrl == OpenUrl

SpecOpenUrl == InitOpenUrl /\ [][NextOpenUrl]_vars

(***************************************************************************)
(* One remote-workspace provider instance: constructed, then asked for     *)
(* connections while the environment changes                               *)
(***************************************************************************)
InitProvider ==
    /\ penv \in ResolverEnvs
    /\ provider = NoProvider
    /\ resolver_calls = 0
    /\ last = [op |-> "none"]
    /\ BuildIdle /\ UrlIdle /\ ConfigIdle /\ FacadeIdle

Construct ==
    /\ provider = NoProvider
    /\ \E cred \in {NoCredential, CallerCredential} :
         provider' = WorkspaceConnectionProvider(<<"sub">>, <<"rg">>, <<"ws">>, cred)
    /\ resolver_calls' = 0
    /\ last' = [op |-> "init"]
    /\ UNCHANGED <<penv, buildVars, urlVars, configVars, facadeVars>>

SetEnv ==
    /\ \E e \in ResolverEnvs :
         /\ e # penv
         /\ e.azureml_serving_installed = penv.azureml_serving_installed
         /\ penv' = e
    /\ last' = [op |-> "setenv"]
    /\ UNCHANGED <<provider, resolver_calls, buildVars, urlVars, configVars, facadeVars>>

Get ==
    /\ provider # NoProvider
    /\ \E token \in TokenOutcomes, resp \in [status_code : SampleStatuses, body : Bodies] :
         \E g \in {get(provider, <<"conn">>, penv, token, resp)} :
            /\ g.resolved # NotCalled => resolver_calls < MaxCalls
            /\ provider' = g.self
            /\ resolver_calls' =
                 IF g.resolved # NotCalled THEN resolver_calls + 1 ELSE resolver_calls
            /\ last' = [op |-> "get", result |-> g.result, resolved |-> g.resolved,
                        used |-> g.used,
                        status |-> IF /\ g.self._credential # NoCredential
                                      /\ penv.azureml_serving_installed
                                      /\ token = "token"
                                   THEN resp.status_code ELSE 0]
    /\ UNCHANGED <<penv, buildVars, urlVars, configVars, facadeVars>>

NextProvider == Construct \/ SetEnv \/ Get

SpecProvider == InitProvider /\ [][NextProvider]_vars

(***************************************************************************)
(* The facade constructed from one provider config                         *)
(***************************************************************************)
InitConfig ==
    /\ environ \in [endpoint : Endpoints, provider_config : {None} \cup ConfigStrings,
                    sdk_installed : BOOLEAN]
    /\ made = NotCalled
    /\ selected = NotCalled
    /\ BuildIdle /\ UrlIdle /\ ProviderIdle /\ FacadeIdle

InitFromProviderConfig ==
    /\ made = NotCalled
    /\ \E cred \in {NoCredential, CallerCredential} :
         made' = init_from_provider_config(environ.provider_config, cred, environ.sdk_installed)
    /\ UNCHANGED <<environ, selected, buildVars, urlVars, providerVars, facadeVars>>

InitFromEnv ==
    /\ selected = NotCalled
    /\ selected' = _init_from_env(environ)
    /\ UNCHANGED <<environ, made, buildVars, urlVars, providerVars, facadeVars>>

NextConfig == InitFromProviderConfig \/ InitFromEnv

SpecConfig == InitConfig /\ [][NextConfig]_vars

(***************************************************************************)
(* The memoized facade: get_instance called again and again, one call at a *)
(* time, while the environment changes                                     *)
(***************************************************************************)
FacadeEnvirons ==
    [endpoint : Endpoints, provider_config : SampleConfigs, sdk_installed : BOOLEAN]

InitFacade ==
    /\ environ \in FacadeEnvirons
    /\ made = NotCalled
    /\ selected = NotCalled
    /\ FacadeIdle
    /\ BuildIdle /\ UrlIdle /\ ProviderIdle

SetEnviron ==
    /\ \E e \in FacadeEnvirons :
         /\ e # environ
         /\ e.sdk_installed = environ.sdk_installed
         /\ environ' = e
    /\ got' = NotCalled
    /\ UNCHANGED <<made, selected, _instance, selections, created, calls, buildVars,
                   urlVars, providerVars>>

GetInstance ==
    /\ LET g == get_instance(_instance, environ, created + 1)
       IN /\ g.ran => selections < MaxSelections
          /\ _instance' = g.inst
          /\ got' = g.result
          /\ selections' = IF g.ran THEN selections + 1 ELSE selections
          /\ created' = IF g.ran /\ Returned(g.result) THEN created + 1 ELSE created
    /\ UNCHANGED <<environ, made, selected, calls, buildVars, urlVars, providerVars>>

NextFacade == SetEnviron \/ GetInstance

SpecFacade == InitFacade /\ [][NextFacade]_vars

(***************************************************************************)
(* get_instance called by several threads of one process.  The method      *)
(* takes no lock, so the interpreter may switch threads between any two of *)
(* its steps: the test of cls._instance, the call of _init_from_env, the   *)
(* assignment to cls._instance, and the read of cls._instance that is      *)
(* returned.                                                               *)
(***************************************************************************)
InitThreads ==
    /\ environ \in FacadeEnvirons
    /\ made = NotCalled
    /\ selected = NotCalled
    /\ FacadeIdle
    /\ BuildIdle /\ UrlIdle /\ ProviderIdle

threadFrame == <<environ, made, selected, got, buildVars, urlVars, providerVars>>

\* thread t enters get_instance
Call(t) ==
    /\ calls[t].pc = "idle"
    /\ calls' = [calls EXCEPT ![t].pc = "test"]
    /\ UNCHANGED <<_instance, selections, created, threadFrame>>

\* if not cls._instance:
TestInstance(t) ==
    /\ calls[t].pc = "test"
    /\ calls' = [calls EXCEPT ![t].pc = IF _instance = NoInstance THEN "select" ELSE "return"]
    /\ UNCHANGED <<_instance, selections, created, threadFrame>>

\* cls._init_from_env(): the value to assign, or the exception that ends the call
Select(t) ==
    /\ calls[t].pc = "select"
    /\ \E r \in {_init_from_env(environ)} :
         /\ selections' = selections + 1
         /\ IF Returned(r)
            THEN /\ created' = created + 1
                 /\ calls' = [calls EXCEPT ![t].pc = "store",
                                           ![t].value = [addr |-> created + 1, obj |-> r.val]]
            ELSE /\ created' = created
                 /\ calls' = [calls EXCEPT ![t].pc = "done", ![t].result = r]
    /\ UNCHANGED <<_instance, threadFrame>>

\* cls._instance = <the value>
StoreInstance(t) ==
    /\ calls[t].pc = "store"
    /\ _instance' = calls[t].value
    /\ calls' = [calls EXCEPT ![t].pc = "return"]
    /\ UNCHANGED <<selections, created, threadFrame>>

\* return cls._instance
ReturnInstance(t) ==
    /\ calls[t].pc = "return"
    /\ calls' = [calls EXCEPT ![t].pc = "done", ![t].result = Ret(_instance)]
    /\ UNCHANGED <<_instance, selections, created, threadFrame>>

NextThreads ==
    \E t \in Threads :
        Call(t) \/ TestInstance(t) \/ Select(t) \/ StoreInstance(t) \/ ReturnInstance(t)

SpecThreads == InitThreads /\ [][NextThreads]_vars

(***************************************************************************)
(* C1.  open_url's classification of the status code                       *)
(***************************************************************************)
\* C1: every status code has exactly one outcome: 403 raises AccessDeniedError,
\* any other status of 400..499 raises OpenURLFailedUserError, any other status
\* but 200 raises OpenURLFailed, and only 200 returns the parsed body, which is
\* deserialized into the model when one is given.
C1_StatusClassification ==
    opened # NotCalled =>
        LET s == response.status_code
        IN /\ (s = 403) <=> Raised(opened, "AccessDeniedError")
           /\ (s \in 400..499 /\ s # 403) <=> Raised(opened, "OpenURLFailedUserError")
           /\ (s \notin 400..499 /\ s # 200) <=> Raised(opened, "OpenURLFailed")
           /\ Returned(opened) => s = 200
           /\ s = 200 /\ response.body.json =>
                opened = Ret(IF model = None THEN response.body.data
                             ELSE [cls |-> model, name |-> response.body.data.name,
                                   properties |-> response.body.data.properties])
           /\ s = 200 /\ ~response.body.json => Raised(opened, "JSONDecodeError")

C1_Witness == response.status_code = 302 /\ Raised(opened, "OpenURLFailed")

(***************************************************************************)
(* C2.  User or system, from open_url to the caller of get                 *)
(***************************************************************************)
\* C2: when the response to get's request is a 4xx the caller of get receives a
\* user error, and when it is neither a 4xx nor 200 the caller receives a system
\* error.
C2_ClassificationPreserved ==
    last.op = "get" /\ last.status # 0 =>
        /\ last.status \in 400..499 =>
             last.result.st = "raise" /\ last.result.exc \in UserErrors
        /\ last.status \notin 400..499 /\ last.status # 200 =>
             last.result.st = "raise" /\ last.result.exc \in SystemErrors

(***************************************************************************)
(* C3.  Provider configs that are no provider                              *)
(***************************************************************************)
C3_WorkspaceShape(s) ==
    /\ Len(s) >= 4
    /\ s[1] = "azureml" /\ s[2] = "://subscriptions/"
    /\ \E i, j \in 3..Len(s) :
         /\ i < j
         /\ s[i] = "/resourceGroups/"
         /\ s[j] = "/providers/Microsoft.MachineLearningServices/workspaces/"

C3_Bad(s) == s # None /\ s # <<>> /\ s # <<"local">> /\ ~C3_WorkspaceShape(s)

C4_Memoized ==
    [][_instance # NoInstance =>
          /\ _instance' = _instance
          /\ selections' = selections
          /\ created' = created
          /\ got' # NotCalled => got' = Ret(_instance)]_vars

C4_Witness ==
    /\ _instance.obj = LocalConnectionProvider
    /\ environ.endpoint = <<"http://localhost:8080">>
    /\ got = Ret(_instance)
    /\ selections = 1

(***************************************************************************)
(* C5.  A failed validation under the CLI                                  *)
(***************************************************************************)
\* C5: when get resolves the credential under the CLI and the ambient credential
\* cannot be obtained or validated, the resolver raises AccountNotSetUp, which is
\* what the caller of get receives, whatever the interactive-disabled and
\* codespaces flags are, and the instance still has no credential.
C5_CliFailureRaises ==
    /\ last.op = "get"
    /\ last.resolved # NotCalled
    /\ penv.azureml_serving_installed /\ penv.is_from_cli /\ ~penv.ambient_ok
    => /\ last.resolved = Raise("AccountNotSetUp")
       /\ last.result = Raise("AccountNotSetUp")
       /\ provider._credential = NoCredential

C5_Witness ==
    /\ last.op = "get"
    /\ penv.is_from_cli /\ ~penv.ambient_ok
    /\ ~penv.interactive_credential_disabled /\ penv.is_github_codespaces
    /\ last.resolved = Raise("AccountNotSetUp")
    /\ provider._credential = NoCredential

(***************************************************************************)
(* C6.  The CLI never gets an interactive credential                       *)
(***************************************************************************)
\* C6: under the CLI the resolver's outcome is AccountNotSetUp or a credential
\* whose chain holds neither interactive browser login nor device-code login,
\* whatever the other flags are.
C6_CliNeverInteractive ==
    /\ last.op = "get"
    /\ last.resolved # NotCalled
    /\ penv.azureml_serving_installed /\ penv.is_from_cli
    => \/ Raised(last.resolved, "AccountNotSetUp")
       \/ /\ Returned(last.resolved)
          /\ ~last.resolved.val.interactive_browser
          /\ ~last.resolved.val.device_code

(***************************************************************************)
(* C7.  The credential of an instance is resolved once                     *)
(***************************************************************************)
\* C7: constructing the instance resolves nothing; a get on an instance without
\* a credential runs the resolver; once the instance holds a credential, resolved
\* or passed to the constructor, no step changes it or runs the resolver again
\* and every get uses it, whatever the environment has become; for a credential
\* passed to the constructor the resolver never runs.
C7_ResolvedOnce ==
    [][/\ last'.op = "init" =>
            /\ resolver_calls' = 0
            /\ provider'._credential \in {NoCredential, CallerCredential}
       /\ provider # NoProvider /\ provider._credential = NoCredential /\ last'.op = "get" =>
            /\ resolver_calls' = resolver_calls + 1
            /\ last'.resolved # NotCalled
       /\ provider # NoProvider /\ provider._credential # NoCredential =>
            /\ provider' = provider
            /\ resolver_calls' = resolver_calls
            /\ last'.op = "get" =>
                 last'.resolved = NotCalled /\ last'.used = Ret(provider._credential)
       /\ provider' # NoProvider /\ provider'._credential = CallerCredential =>
            resolver_calls' = 0]_vars

C7_Witness ==
    /\ last.op = "get"
    /\ last.resolved = NotCalled
    /\ resolver_calls = 1
    /\ penv.interactive_credential_disabled
    /\ provider._credential = DefaultAzureCredential(FALSE)
    /\ last.used = Ret(DefaultAzureCredential(FALSE))

(***************************************************************************)
(* C8.  Type-name resolution against the reference table                   *)
(***************************************************************************)
C8_Reference(declared, category, kind) ==
    IF declared # None /\ declared # <<>> THEN Ret(declared)
    ELSE CASE category = <<"AzureOpenAI">> -> Ret(<<"AzureOpenAI">>)
           [] category = <<"CognitiveSearch">> -> Ret(<<"CognitiveSearch">>)
           [] category = <<"Serverless">> -> Ret(<<"Serverless">>)
           [] category = <<"CognitiveService">> /\ kind = <<"Content Safety">> ->
                Ret(<<"AzureContentSafety">>)
           [] category = <<"CognitiveService">> /\ kind = <<"Form Recognizer">> ->
                Ret(<<"FormRecognizer">>)
           [] OTHER -> Raise("UnknownConnectionType")

C8_Expected ==
    C8_Reference(
        get_case_insensitive_key(obj.properties.metadata,
                                 <<"azureml.flow.", "connection_type">>, None),
        obj.properties.category,
        get_case_insensitive_key(obj.properties.metadata, <<"Kind">>, None))

\* C8: resolving the type name of any resource gives what the reference table
\* gives for its declared type name, category and Kind (the declared name
\* unchanged when non-empty, else the category for AzureOpenAI, CognitiveSearch
\* and Serverless, else the Kind mapping of CognitiveService, else
\* UnknownConnectionType), and the type of every descriptor built is that name
\* with "Connection" appended exactly when it does not already end with it.
C8_TypeNameResolution ==
    /\ typed # NotCalled => typed = C8_Expected
    /\ Returned(built) =>
          /\ Returned(C8_Expected)
          /\ built.val.type[Len(built.val.type)] = "Connection"
          /\ built.val.type =
                IF C8_Expected.val[Len(C8_Expected.val)] = "Connection"
                THEN C8_Expected.val
                ELSE C8_Expected.val \o <<"Connection">>

C8_Witness ==
    /\ obj.properties.category = CognitiveService
    /\ typed = Ret(<<"FormRecognizer">>)
    /\ Returned(built)
    /\ built.val.type = <<"FormRecognizer", "Connection">>

(***************************************************************************)
(* C9.  No empty value in the value map of a descriptor                    *)
(***************************************************************************)
C9_NoEmptyValue ==
    Returned(built) =>
        /\ \A it \in Items(built.val.value) : it[2] # <<>> /\ it[2] # None
        /\ Items(built.val.value) =
              {it \in Items(CategoryValue(obj.properties).val) : it[2] # <<>> /\ it[2] # None}

C9_IsAAD == obj.properties.auth_type \in {<<"AAD">>, <<"aad">>}

C9_AADValue ==
    /\ << <<"auth_mode">>, <<"meid_token">> >> \in Items(built.val.value)
    /\ \A it \in Items(built.val.value) : it[1] # <<"api_key">>

C9_KeyedCategories == {AzureOpenAI, CognitiveSearch, Serverless, CognitiveService}

\* C9 as stated: every descriptor built has no empty and no null value in its
\* value map, and with AAD auth the map has auth_mode meid_token and no api_key,
\* whatever the category.
C9_Original ==
    /\ C9_NoEmptyValue
    /\ Returned(built) /\ C9_IsAAD => C9_AADValue

\* C9 amended: every descriptor built has no empty and no null value in its value
\* map, which holds exactly the non-empty items of the assembled map; with AAD
\* auth the map has auth_mode meid_token and no api_key for the categories whose
\* value takes the auth config (AzureOpenAI, CognitiveSearch, Serverless,
\* CognitiveService); CustomKeys never reads the auth type.
C9_Amended ==
    /\ C9_NoEmptyValue
    /\ Returned(built) /\ C9_IsAAD /\ obj.properties.category \in C9_KeyedCategories
          => C9_AADValue

C9_Witness ==
    /\ obj.properties.category = AzureOpenAI
    /\ obj.properties.auth_type = AAD
    /\ obj.properties.target = <<>>
    /\ << <<"ApiVersion">>, <<>> >> \in Items(obj.properties.metadata)
    /\ Returned(built)
    /\ Items(built.val.value) = {<< <<"auth_mode">>, <<"meid_token">> >>}

(***************************************************************************)
(* C10.  The value map of a CustomKeys resource                            *)
(***************************************************************************)
C10_NonReserved(md) == {it \in Items(md) : it[1][1] # "azureml.flow."}

C10_NonEmpty(S) == {it \in S : it[2] # <<>> /\ it[2] # None}

C10_Declared ==
    get_case_insensitive_key(obj.properties.metadata,
                             <<"azureml.flow.", "connection_type">>, None)

\* C10 as stated: every CustomKeys resource, with or without a connection-type
\* entry in its metadata, builds a descriptor whose value map is the non-empty
\* entries of credentials.keys merged with (overridden by) the non-empty metadata
\* entries outside the reserved prefix.
C10_Original ==
    obj.properties.category = CustomKeys /\ built # NotCalled =>
        /\ Returned(built)
        /\ LET md == C10_NonEmpty(C10_NonReserved(obj.properties.metadata))
                ks == C10_NonEmpty(Items(obj.properties.credentials.keys))
           IN Items(built.val.value) =
                md \cup {it \in ks : \A m \in md : m[1] # it[1]}

\* C10 amended: a CustomKeys resource whose metadata declares a non-empty
\* connection type builds a descriptor whose value map is credentials.keys
\* overridden by the metadata entries outside the reserved prefix, less the
\* entries of that merged map whose value is empty; one with no (or an empty)
\* connection-type entry fails with UnknownConnectionType.
C10_Amended ==
    obj.properties.category = CustomKeys /\ built # NotCalled =>
        IF C10_Declared # None /\ C10_Declared # <<>>
        THEN /\ Returned(built)
             /\ LET md == C10_NonReserved(obj.properties.metadata)
                     ks == Items(obj.properties.credentials.keys)
                IN Items(built.val.value) =
                     C10_NonEmpty(md \cup {it \in ks : \A m \in md : m[1] # it[1]})
        ELSE Raised(built, "UnknownConnectionType")

C10_Witness ==
    /\ obj.properties.category = CustomKeys
    /\ obj.properties.credentials.keys = << << <<"a">>, <<"x">> >>, << <<"b">>, <<>> >> >>
    /\ Items(obj.properties.metadata) =
          {<< <<"azureml.flow.", "connection_type">>, <<"Custom">> >>,
           << <<"azureml.flow.", "foo">>, <<"ignored">> >>,
           << <<"plain">>, <<"keep">> >>}
    /\ Returned(built)
    /\ Items(built.val.value) = {<< <<"a">>, <<"x">> >>, << <<"plain">>, <<"keep">> >>}

(***************************************************************************)
(* C11.  get_instance under concurrent callers                             *)
(***************************************************************************)
\* C11: under any interleaving of concurrent get_instance calls, the selection
\* constructs a provider at most once, and every caller that was handed an
\* instance holds the memoized one.
C11_SelectsOnceAndShares ==
    /\ created <= 1
    /\ \A t \in Threads :
          Returned(calls[t].result) => calls[t].result = Ret(_instance)

====
